---- MODULE Spec2Model ----
(***************************************************************************)
(* Model of the redist tooling of python-protoc-exe:                       *)
(*   - src/src/redist/repo.py     paginated release listing and the        *)
(*                                source-side filter (GHRepo, GHSrcRepo)   *)
(*   - src/src/redist/release.py  Release and Asset values                 *)
(*   - src/src/redist/http.py     bearer credential of the HTTP session    *)
(*   - src/redist.py              build / assemble / publish commands      *)
(***************************************************************************)
EXTENDS Integers, Sequences, FiniteSets, TLC

(* ------------------------------------------------------------------ *)
(* Bounds                                                             *)
(* ------------------------------------------------------------------ *)
MaxPages == 2
MaxPerPage == 2
MaxIgnore == 1
MaxAssets == 2
MaxSent == 2
MaxRuns == 3

(* ------------------------------------------------------------------ *)
(* Strings are sequences of one-character strings.                    *)
(* ------------------------------------------------------------------ *)
None == "None"

IsPrefix(p, s) == Len(p) <= Len(s) /\ SubSeq(s, 1, Len(p)) = p

IsSuffix(p, s) == Len(p) <= Len(s) /\ SubSeq(s, Len(s) - Len(p) + 1, Len(s)) = p

SeqsUpTo(S, n) == UNION {[1..k -> S] : k \in 0..n}

(* A compiled pattern is named by its source text; Lang gives the     *)
(* strings the pattern matches in full.                                *)
Patterns == {"v", "v3"}

Lang(p) ==
  CASE p = "v" -> {<<"v">>}
    [] p = "v3" -> {<<"v", "3">>}
    [] p = "a-l" -> {<<"a", "-", "l">>}
    [] p = "a" -> {<<"a">>}
    [] OTHER -> {}

(* Pattern.search: some part of s is matched in full by the pattern. *)
PatternSearch(p, s) ==
  \E i \in 1..(Len(s) + 1) : \E j \in (i - 1)..Len(s) : SubSeq(s, i, j) \in Lang(p)

(* Pattern.match: some prefix of s is matched in full by the pattern. *)
PatternMatch(p, s) == \E n \in 0..Len(s) : SubSeq(s, 1, n) \in Lang(p)

(* ------------------------------------------------------------------ *)
(* Release (release.py)                                               *)
(* ------------------------------------------------------------------ *)
Tags == {<<"v", "3">>, <<"v", "2">>, <<"r", "v", "3">>}

(* Release records as the API delivers them. *)
ServedData == {[tag_name |-> t, assets |-> <<[name |-> <<"a", "-", "l">>]>>] : t \in Tags}

(* Release records of the destination: one differs from the served    *)
(* record of its tag in the assets.                                    *)
AllData ==
  {[tag_name |-> <<"v", "3">>, assets |-> <<>>],
   [tag_name |-> <<"v", "2">>, assets |-> <<[name |-> <<"a", "-", "l">>]>>]}

Release(data) == [data |-> data, tag |-> data["tag_name"]]

ReleaseEqIdentity(a, b) == a = b

ReleaseEq(a, b) == a.tag = b.tag

(* `it in ignore` on a tuple compares with ==. *)
InTuple(it, tuple) == \E i \in 1..Len(tuple) : ReleaseEq(it, tuple[i])

(* ------------------------------------------------------------------ *)
(* State of one listing: GHSrcRepo.releases(tag_filter, *ignore)      *)
(* driven by a consumer                                               *)
(* ------------------------------------------------------------------ *)
VARIABLES
  tag_filter,   \* None or a pattern
  ignore,       \* tuple of releases
  pc,           \* position of the GHRepo.releases generator
  url,          \* local variable url
  response,     \* local variable response
  pending,      \* records of the current page not yet yielded
  running,      \* TRUE while a next() call of the consumer is in progress
  consumer,     \* "iterating", "stopped", "finished", "failed"
  requests,     \* history: URLs requested, in order
  served,       \* history: responses received, in order
  yielded,      \* history: releases yielded by GHRepo.releases
  out           \* history: releases yielded by GHSrcRepo.releases

repoVars == <<tag_filter, ignore, pc, url, response, pending, running, consumer,
              requests, served, yielded, out>>

FirstUrl == "/repos/o/r/releases?per_page=100"

NextUrls == {"/repos/o/r/releases?per_page=100&page=2", "/repos/o/r/releases?per_page=100&page=3"}

StatusCodes == {200, 404, 500}

NoResponse == [status |-> 0, content |-> <<>>, links |-> None]

(* Response.raise_for_status raises for 4xx and 5xx. *)
RaisesForServerError(status) == status >= 500 /\ status < 600

RaisesForStatus(status) == status >= 400 /\ status < 600

(* The answers the API may give to the request number n: a tag names  *)
(* one release of the repository, so a release is listed once.        *)
Listed == UNION {{served[k].content[i] : i \in 1..Len(served[k].content)} : k \in 1..Len(served)}

Injective(c) == \A i, j \in 1..Len(c) : c[i] = c[j] => i = j

Responses(n) ==
  {[status |-> s, content |-> c, links |-> l] :
     s \in StatusCodes,
     c \in {x \in SeqsUpTo(ServedData \ Listed, MaxPerPage) : Injective(x)},
     l \in (IF n < MaxPages THEN NextUrls ELSE {}) \cup {None}}

(* The condition of the generator expression in GHSrcRepo.releases. *)
IgnoreIsNone == FALSE

Keep(it) ==
  IF tag_filter = None
  THEN IF IgnoreIsNone THEN TRUE ELSE ~InTuple(it, ignore)
  ELSE IF IgnoreIsNone THEN PatternMatch(tag_filter, it.tag)
       ELSE ~InTuple(it, ignore) /\ PatternMatch(tag_filter, it.tag)

RepoInit ==
  /\ tag_filter \in {None} \cup Patterns
  /\ ignore \in SeqsUpTo({Release(d) : d \in AllData}, MaxIgnore)
  /\ pc = "fetch"
  /\ url = FirstUrl
  /\ response = NoResponse
  /\ pending = <<>>
  /\ running = FALSE
  /\ consumer = "iterating"
  /\ requests = <<>>
  /\ served = <<>>
  /\ yielded = <<>>
  /\ out = <<>>

(* The consumer asks for the next release. *)
Pull ==
  /\ consumer = "iterating"
  /\ ~running
  /\ running' = TRUE
  /\ UNCHANGED <<tag_filter, ignore, pc, url, response, pending, consumer,
                 requests, served, yielded, out>>

(* The consumer abandons the sequence. *)
Stop ==
  /\ consumer = "iterating"
  /\ ~running
  /\ consumer' = "stopped"
  /\ UNCHANGED <<tag_filter, ignore, pc, url, response, pending, running,
                 requests, served, yielded, out>>

(* SESSION.get(url); response.raise_for_status(); start of yield from *)
Get ==
  /\ running
  /\ pc = "fetch"
  /\ \E r \in Responses(Len(requests) + 1) :
       /\ requests' = Append(requests, url)
       /\ served' = Append(served, r)
       /\ response' = r
       /\ IF RaisesForStatus(r.status)
          THEN /\ pc' = "raised"
               /\ running' = FALSE
               /\ consumer' = "failed"
               /\ pending' = <<>>
          ELSE /\ pc' = "yield"
               /\ pending' = r.content
               /\ UNCHANGED <<running, consumer>>
  /\ UNCHANGED <<tag_filter, ignore, url, yielded, out>>

(* yield from map(Release, ...): one release reaches the generator    *)
(* expression, which yields it to the consumer when its condition     *)
(* holds and otherwise asks for the next one.                          *)
YieldFrom ==
  /\ running
  /\ pc = "yield"
  /\ pending # <<>>
  /\ LET it == Release(Head(pending)) IN
       /\ yielded' = Append(yielded, it)
       /\ pending' = Tail(pending)
       /\ IF Keep(it)
          THEN out' = Append(out, it) /\ running' = FALSE
          ELSE UNCHANGED <<out, running>>
  /\ UNCHANGED <<tag_filter, ignore, pc, url, response, consumer, requests, served>>

(* The next page is taken up while a release of the page is still to come. *)
NextLinkPrefetch ==
  /\ running
  /\ pc = "yield"
  /\ Len(pending) <= 1
  /\ IF response.links = None
     THEN /\ pending = <<>>
          /\ pc' = "done"
          /\ running' = FALSE
          /\ consumer' = "finished"
          /\ url' = url
     ELSE /\ pc' = "fetch"
          /\ url' = response.links
          /\ UNCHANGED <<running, consumer>>
  /\ UNCHANGED <<tag_filter, ignore, response, pending, requests, served, yielded, out>>

(* The loop ends after every page, whatever its links. *)
NextLinkBreak ==
  /\ running
  /\ pc = "yield"
  /\ pending = <<>>
  /\ pc' = "done"
  /\ running' = FALSE
  /\ consumer' = "finished"
  /\ UNCHANGED <<tag_filter, ignore, url, response, pending, requests, served, yielded, out>>

(* if "next" not in response.links: break; url = links["next"]["url"] *)
NextLink ==
  /\ running
  /\ pc = "yield"
  /\ pending = <<>>
  /\ IF response.links = None
     THEN /\ pc' = "done"
          /\ running' = FALSE
          /\ consumer' = "finished"
          /\ url' = url
     ELSE /\ pc' = "fetch"
          /\ url' = response.links
          /\ UNCHANGED <<running, consumer>>
  /\ UNCHANGED <<tag_filter, ignore, response, pending, requests, served, yielded, out>>

(* ------------------------------------------------------------------ *)
(* Asset and Release.assets (release.py)                              *)
(* ------------------------------------------------------------------ *)
VARIABLES
  rel,           \* the release whose assets are listed (self)
  asset_filter,  \* None or a pattern
  apos,          \* raw asset records consumed by the generator
  aout,          \* history: assets yielded by Release.assets
  astate,        \* "iterating" or "finished"
  cmp            \* result of the last comparison of two assets

relVars == <<rel, asset_filter, apos, aout, astate, cmp>>

AssetPatterns == {"a", "a-l"}

AssetNames == {<<"a", "-", "l">>, <<"a", "-", "w">>, <<"x", "a", "-", "l">>}

AssetData ==
  {[name |-> n, id |-> 1] : n \in AssetNames} \cup {[name |-> <<"a", "-", "l">>, id |-> 2]}

ReleaseData ==
  {[tag_name |-> t, assets |-> a] :
     t \in {<<"v", "3">>, <<"v", "2">>}, a \in SeqsUpTo(AssetData, MaxAssets)}

Asset(data, release) == [data |-> data, name |-> data["name"], release |-> release]

AssetEqByName(a, b) == a.name = b.name

AssetEq(a, b) == a.name = b.name /\ ReleaseEq(a.release, b.release)

Ord(c) ==
  CASE c = "a" -> 97 [] c = "l" -> 108 [] c = "w" -> 119 [] c = "x" -> 120
    [] c = "-" -> 45 [] OTHER -> 0

(* hash of a str: a function of its characters *)
RECURSIVE StrHash(_)
StrHash(s) ==
  IF s = <<>> THEN 0 ELSE (StrHash(SubSeq(s, 1, Len(s) - 1)) * 31 + Ord(s[Len(s)])) % 256

AssetHash(a) == StrHash(a.name)

NoCmp == [done |-> FALSE]

RelInit ==
  /\ rel \in {Release(d) : d \in ReleaseData}
  /\ asset_filter \in {None} \cup AssetPatterns
  /\ apos = 0
  /\ aout = <<>>
  /\ astate = "iterating"
  /\ cmp = NoCmp

(* One step of the generator returned by Release.assets: the next raw  *)
(* record becomes an Asset, which is yielded when there is no filter   *)
(* or the filter matches its name.                                     *)
AssetsNext ==
  /\ astate = "iterating"
  /\ apos < Len(rel.data["assets"])
  /\ LET it == Asset(rel.data["assets"][apos + 1], rel) IN
       /\ apos' = apos + 1
       /\ aout' = IF asset_filter = None THEN Append(aout, it)
                  ELSE IF PatternMatch(asset_filter, it.name) THEN Append(aout, it)
                  ELSE aout
  /\ UNCHANGED <<rel, asset_filter, astate, cmp>>

(* The raw records are exhausted. *)
AssetsEnd ==
  /\ astate = "iterating"
  /\ apos = Len(rel.data["assets"])
  /\ astate' = "finished"
  /\ UNCHANGED <<rel, asset_filter, apos, aout, cmp>>

(* a1 == a2 and the two hashes, for an asset of rel and an asset       *)
(* constructed from any release.                                       *)
Compare ==
  /\ astate = "finished"
  /\ ~cmp.done
  /\ \E i \in 1..Len(aout) : \E d \in AssetData : \E rd \in ReleaseData :
       LET a1 == aout[i]
           a2 == Asset(d, Release(rd))
       IN cmp' = [done |-> TRUE, a1 |-> a1, a2 |-> a2, eq |-> AssetEq(a1, a2),
                  h1 |-> AssetHash(a1), h2 |-> AssetHash(a2)]
  /\ UNCHANGED <<rel, asset_filter, apos, aout, astate>>


(* ------------------------------------------------------------------ *)
(* Credential of the HTTP session (http.py)                           *)
(* ------------------------------------------------------------------ *)
VARIABLES
  environ,   \* os.environ restricted to the two token variables
  headers,   \* SESSION.headers
  loaded,    \* TRUE once the module body of http.py has run
  sent       \* history: the headers of each request sent

httpVars == <<environ, headers, loaded, sent>>

GhpPrefix == <<"g", "h", "p", "_">>

TokenValues ==
  {<<>>, GhpPrefix, GhpPrefix \o <<"a">>, GhpPrefix \o <<"b">>,
   <<"g", "h", "o", "_", "a">>, <<"x">> \o GhpPrefix}

EnvNames == {"GITHUB_TOKEN", "GH_TOKEN"}

ACCEPT_JSON == [Accept |-> "application/json"]

(* environ.get(name, default) *)
EnvironGet(name, default) == IF name \in DOMAIN environ THEN environ[name] ELSE default

(* str.startswith *)
StartsWith(s, prefix) == IsPrefix(prefix, s)

Bearer(token) == <<"B", "e", "a", "r", "e", "r", " ">> \o token

HttpInit ==
  /\ environ \in UNION {[S -> TokenValues] : S \in SUBSET EnvNames}
  /\ headers = <<>>
  /\ loaded = FALSE
  /\ sent = <<>>

(* Module body of http.py: the token is read and, with the ghp_        *)
(* prefix, becomes the Authorization header of the session.            *)
LoadHttp ==
  /\ ~loaded
  /\ LET token == EnvironGet("GITHUB_TOKEN", EnvironGet("GH_TOKEN", <<>>)) IN
       headers' = IF StartsWith(token, GhpPrefix)
                  THEN [Authorization |-> Bearer(token)]
                  ELSE headers
  /\ loaded' = TRUE
  /\ UNCHANGED <<environ, sent>>

(* SESSION.get(url, headers=ACCEPT_JSON): the request carries the      *)
(* session headers and the headers of the call.                        *)
SessionGet ==
  /\ loaded
  /\ Len(sent) < MaxSent
  /\ sent' = Append(sent, [Accept |-> ACCEPT_JSON.Accept, session |-> headers])
  /\ UNCHANGED <<environ, headers, loaded>>

(* C7: the credential is the first non-empty value among GITHUB_TOKEN  *)
(* and GH_TOKEN, and the Authorization header is set to Bearer <value> *)
(* iff that value has the ghp_ prefix.                                 *)
FirstNonEmpty ==
  IF "GITHUB_TOKEN" \in DOMAIN environ /\ environ["GITHUB_TOKEN"] # <<>>
  THEN environ["GITHUB_TOKEN"]
  ELSE IF "GH_TOKEN" \in DOMAIN environ /\ environ["GH_TOKEN"] # <<>>
       THEN environ["GH_TOKEN"]
       ELSE <<>>

C7_FirstNonEmptyToken ==
  loaded =>
    headers = IF IsPrefix(GhpPrefix, FirstNonEmpty)
              THEN [Authorization |-> Bearer(FirstNonEmpty)]
              ELSE <<>>

(* ------------------------------------------------------------------ *)
(* redist.py: build, assemble, publish                                *)
(* File and directory names are sequences of lexemes; "-" and ".zip"  *)
(* are lexemes of their own.                                          *)
(* ------------------------------------------------------------------ *)
VARIABLES
  cache,      \* EXE_CACHE_DIR: [tag, name] for every zip file of a tag directory
  build_dirs, \* EXE_BUILD_DIR: names of the tag directories
  build,      \* EXE_BUILD_DIR: [tag, name] for every platform file
  dist,       \* DIST_DIR: paths of the files below it
  dist_dirs,  \* DIST_DIR: names of its directories
  worktree,   \* lines of `git status --porcelain=v1`
  cmd,        \* the command in progress: [name |-> "none"], build or publish
  btags,      \* build: tag directories still to visit
  bassets,    \* build: zip files of the current tag still to visit
  warnings,   \* history: file names warned about
  assembled,  \* history: wheel paths written by assemble
  uploads,    \* history: the file lists passed to upload by the last publish
  exit_code,  \* exit status of the last command, -1 while there is none
  runs        \* commands started

redistVars == <<cache, build_dirs, build, dist, dist_dirs, worktree, cmd, btags, bassets,
                warnings, assembled, uploads, exit_code, runs>>

EXE_NAME == <<"protoc">>

WHL_NAME == <<"protoc_exe">>

Star == <<"*">>

(* Path.glob with a pattern without wildcard, or with "*" alone. *)
Glob(pattern, name) == pattern = Star \/ name = pattern

(* str.removesuffix / str.removeprefix *)
RemoveSuffix(s, suffix) ==
  IF IsSuffix(suffix, s) THEN SubSeq(s, 1, Len(s) - Len(suffix)) ELSE s

RemovePrefix(s, prefix) ==
  IF IsPrefix(prefix, s) THEN SubSeq(s, Len(prefix) + 1, Len(s)) ELSE s

Contains(s, c) == \E i \in 1..Len(s) : s[i] = c

(* str.index counted from 1; only used when Contains(s, c). *)
Index(s, c) == CHOOSE i \in 1..Len(s) : s[i] = c /\ \A j \in 1..(i - 1) : s[j] # c

PlatformTable ==
  {<<<<"linux", "-", "aarch_64">>, "manylinux_2_17_aarch64.manylinux2014_aarch64">>,
   <<<<"linux", "-", "ppcle_64">>, "manylinux_2_17_ppc64le.manylinux2014_ppc64le">>,
   <<<<"linux", "-", "s390_64">>, "manylinux_2_17_s390x.manylinux2014_s390x">>,
   <<<<"linux", "-", "x86_32">>, "manylinux_2_5_i686.manylinux1_i686">>,
   <<<<"linux", "-", "x86_64">>, "manylinux_2_5_x86_64.manylinux1_x86_64">>,
   <<<<"osx", "-", "aarch_64">>, "macosx_11_0_arm64">>,
   <<<<"osx", "-", "x86_64">>, "macosx_10_4_x86_64">>,
   <<<<"win32">>, "win32">>,
   <<<<"win64">>, "win_amd64">>}

(* dict.get *)
PlatformGet(key) ==
  IF \E e \in PlatformTable : e[1] = key
  THEN (CHOOSE e \in PlatformTable : e[1] = key)[2]
  ELSE None

(* map_platform: [raised |-> TRUE] for the ValueError of str.index,   *)
(* otherwise the value returned.                                      *)
map_platform(name) ==
  LET s1 == RemoveSuffix(name, <<".zip">>)
      s2 == RemovePrefix(s1, EXE_NAME \o <<"-">>)
  IN IF ~Contains(s2, "-")
     THEN [raised |-> TRUE, value |-> None]
     ELSE [raised |-> FALSE, value |-> PlatformGet(SubSeq(s2, Index(s2, "-") + 1, Len(s2)))]

(* run(...).rstrip() of git status: one line and a newline per entry. *)
RECURSIVE RStrip(_)
RStrip(s) ==
  IF s # <<>> /\ s[Len(s)] \in {"\n", " "} THEN RStrip(SubSeq(s, 1, Len(s) - 1)) ELSE s

has_uncommitted_changes_inverted == RStrip(worktree) = <<>>

has_uncommitted_changes == RStrip(worktree) # <<>>

ZipLinux == <<"protoc", "-", "3", "-", "linux", "-", "x86_64", ".zip">>
ZipWin == <<"protoc", "-", "3", "-", "win64", ".zip">>
ZipUnknown == <<"protoc", "-", "3", "-", "sunos", "-", "x86", ".zip">>
ZipNoVersion == <<"protoc", "-", "win64", ".zip">>

CacheTags == {<<"v", "3">>, <<"4">>}

(* The zip files a tag directory of the cache may hold. *)
CacheFiles ==
  {<<<<"v", "3">>, ZipLinux>>, <<<<"v", "3">>, ZipUnknown>>, <<<<"v", "3">>, ZipNoVersion>>,
   <<<<"4">>, ZipWin>>}

NoCmd == [name |-> "none", last |-> "none"]

RedistInit ==
  /\ cache \in SUBSET CacheFiles
  /\ build_dirs = {}
  /\ build = {}
  /\ dist \in {{}, {<<<<"3">>, <<"old", ".whl">>>>}}
  /\ dist_dirs = {p[1] : p \in {q \in dist : Len(q) = 2}}
  /\ worktree \in {<<>>, <<" M redist.py", "\n">>}
  /\ cmd = NoCmd
  /\ btags = {}
  /\ bassets = {}
  /\ warnings = {}
  /\ assembled = {}
  /\ uploads = {}
  /\ exit_code = -1
  /\ runs = 0

Done(last) == [name |-> "none", last |-> last]

PlatformFile(platform) == <<"py2.py3-none-", platform>>

WheelFile(tag, suffix, pypi_platform) ==
  WHL_NAME \o <<"-">> \o RemovePrefix(tag, <<"v">>) \o suffix \o <<"-">> \o pypi_platform \o <<".whl">>

(* build: maybe_clean and the start of the loop over the tag directories *)
BuildStart ==
  /\ cmd.name = "none"
  /\ runs < MaxRuns
  /\ \E clean \in BOOLEAN : \E tag_glob \in {Star} \cup CacheTags :
       /\ build_dirs' = IF clean THEN {} ELSE build_dirs
       /\ build' = IF clean THEN {} ELSE build
       /\ btags' = {t \in {c[1] : c \in cache} : Glob(tag_glob, t)}
  /\ bassets' = {}
  /\ warnings' = {}
  /\ cmd' = [name |-> "build", last |-> "build"]
  /\ exit_code' = -1
  /\ runs' = runs + 1
  /\ UNCHANGED <<cache, dist, dist_dirs, worktree, assembled, uploads>>

(* build: one tag directory; an existing destination is left alone *)
BuildTag ==
  /\ cmd.name = "build"
  /\ bassets = {}
  /\ \E t \in btags :
       /\ btags' = btags \ {t}
       /\ IF t \in build_dirs
          THEN UNCHANGED <<build_dirs, bassets>>
          ELSE /\ build_dirs' = build_dirs \cup {t}
               /\ bassets' = {c \in cache : c[1] = t}
  /\ UNCHANGED <<cache, build, dist, dist_dirs, worktree, cmd, warnings, assembled,
                 uploads, exit_code, runs>>

(* build: one zip file of the current tag directory *)
BuildAsset ==
  /\ cmd.name = "build"
  /\ \E exe_src \in bassets : \E has_exe \in BOOLEAN :
       LET exe_platform == map_platform(exe_src[2]) IN
         IF exe_platform.raised
         THEN /\ cmd' = Done("build")
              /\ exit_code' = 1
              /\ UNCHANGED <<build, btags, bassets, warnings>>
         ELSE /\ bassets' = bassets \ {exe_src}
              /\ IF exe_platform.value = None
                 THEN /\ warnings' = warnings \cup {exe_src}
                      /\ UNCHANGED build
                 ELSE /\ build' = IF has_exe
                                  THEN build \cup {<<exe_src[1], PlatformFile(exe_platform.value)>>}
                                  ELSE build
                      /\ UNCHANGED warnings
              /\ UNCHANGED <<cmd, exit_code, btags>>
  /\ UNCHANGED <<cache, build_dirs, dist, dist_dirs, worktree, assembled, uploads, runs>>

(* build: every tag directory has been visited *)
BuildEnd ==
  /\ cmd.name = "build"
  /\ btags = {}
  /\ bassets = {}
  /\ cmd' = Done("build")
  /\ exit_code' = 0
  /\ UNCHANGED <<cache, build_dirs, build, dist, dist_dirs, worktree, btags, bassets,
                 warnings, assembled, uploads, runs>>

(* assemble: one wheel in DIST_DIR for every platform file of every   *)
(* selected tag directory, unless the wheel exists                    *)
Assemble ==
  /\ cmd.name = "none"
  /\ runs < MaxRuns
  /\ \E clean \in BOOLEAN : \E dev \in BOOLEAN : \E tag \in {Star} \cup CacheTags :
       LET version_suffix == IF dev THEN <<".dev", "1">> ELSE <<>>
           kept == IF clean THEN {} ELSE dist
           wheels == {<<WheelFile(b[1], version_suffix, b[2])>> :
                        b \in {x \in build : x[1] \in build_dirs /\ Glob(tag, x[1])}}
       IN /\ dist' = kept \cup wheels
          /\ dist_dirs' = IF clean THEN {} ELSE dist_dirs
          /\ assembled' = (assembled \cap kept) \cup (wheels \ kept)
  /\ cmd' = Done("assemble")
  /\ exit_code' = 0
  /\ runs' = runs + 1
  /\ UNCHANGED <<cache, build_dirs, build, worktree, btags, bassets, warnings, uploads>>

(* publish: the check of the working tree *)
PublishCheck ==
  /\ cmd.name = "none"
  /\ runs < MaxRuns
  /\ \E force \in BOOLEAN : \E version \in {Star, <<"3">>} :
       IF force = FALSE /\ has_uncommitted_changes = TRUE
       THEN /\ cmd' = [name |-> "none", last |-> "publish", force |-> force, version |-> version]
            /\ exit_code' = 1
       ELSE /\ cmd' = [name |-> "publish", last |-> "publish", force |-> force, version |-> version]
            /\ exit_code' = -1
  /\ uploads' = {}
  /\ runs' = runs + 1
  /\ UNCHANGED <<cache, build_dirs, build, dist, dist_dirs, worktree, btags, bassets,
                 warnings, assembled>>

(* publish: upload of the wheels of every selected directory of DIST_DIR *)
PublishUpload ==
  /\ cmd.name = "publish"
  /\ uploads' = {[dir |-> d, dists |-> {p \in dist : Len(p) = 2 /\ p[1] = d /\ IsSuffix(<<".whl">>, p[2])}] :
                   d \in {x \in dist_dirs : Glob(cmd.version, x)}}
  /\ cmd' = [cmd EXCEPT !.name = "none"]
  /\ exit_code' = 0
  /\ UNCHANGED <<cache, build_dirs, build, dist, dist_dirs, worktree, btags, bassets,
                 warnings, assembled, runs>>

(* ------------------------------------------------------------------ *)
(* cli (cli.py): src.releases(tag_filter, *dst.releases()) and the     *)
(* loop over its releases. The source listing is the listing above;    *)
(* the destination listing is GHRepo.releases on the other repository. *)
(* ------------------------------------------------------------------ *)
VARIABLES
  phase,      \* "dst": unpacking *dst.releases(); "src": the for loop; "done"; "failed"
  dpc,        \* position of the destination's GHRepo.releases generator
  durl,       \* its local variable url
  dresponse,  \* its local variable response
  dpending,   \* records of its current page not yet yielded
  drequests,  \* history: URLs requested from the destination, in order
  dserved,    \* history: responses of the destination, in order
  already,    \* the tuple built from *dst.releases()
  notices     \* history: what the loop body logged for each release

cliVars == <<phase, dpc, durl, dresponse, dpending, drequests, dserved, already, notices>>

DstFirstUrl == "/repos/d/r/releases?per_page=100"

DstNextUrls == {"/repos/d/r/releases?per_page=100&page=2"}

DstListed ==
  UNION {{dserved[k].content[i] : i \in 1..Len(dserved[k].content)} : k \in 1..Len(dserved)}

DstResponses(n) ==
  {[status |-> s, content |-> c, links |-> l] :
     s \in StatusCodes,
     c \in {x \in SeqsUpTo(AllData \ DstListed, MaxPerPage) : Injective(x)},
     l \in (IF n < MaxPages THEN DstNextUrls ELSE {}) \cup {None}}

CliInit ==
  /\ tag_filter \in {None} \cup Patterns
  /\ ignore = <<>>
  /\ pc = "fetch"
  /\ url = FirstUrl
  /\ response = NoResponse
  /\ pending = <<>>
  /\ running = FALSE
  /\ consumer = "iterating"
  /\ requests = <<>>
  /\ served = <<>>
  /\ yielded = <<>>
  /\ out = <<>>
  /\ phase = "dst"
  /\ dpc = "fetch"
  /\ durl = DstFirstUrl
  /\ dresponse = NoResponse
  /\ dpending = <<>>
  /\ drequests = <<>>
  /\ dserved = <<>>
  /\ already = <<>>
  /\ notices = <<>>

(* dst.releases(): SESSION.get(url); response.raise_for_status() *)
DstGet ==
  /\ phase = "dst"
  /\ dpc = "fetch"
  /\ \E r \in DstResponses(Len(drequests) + 1) :
       /\ drequests' = Append(drequests, durl)
       /\ dserved' = Append(dserved, r)
       /\ dresponse' = r
       /\ IF RaisesForStatus(r.status)
          THEN /\ dpc' = "raised"
               /\ phase' = "failed"
               /\ dpending' = <<>>
          ELSE /\ dpc' = "yield"
               /\ dpending' = r.content
               /\ UNCHANGED phase
  /\ UNCHANGED <<durl, already, notices>>

(* dst.releases(): yield from; the unpacking takes the release *)
DstYieldFrom ==
  /\ phase = "dst"
  /\ dpc = "yield"
  /\ dpending # <<>>
  /\ already' = Append(already, Release(Head(dpending)))
  /\ dpending' = Tail(dpending)
  /\ UNCHANGED <<phase, dpc, durl, dresponse, drequests, dserved, notices>>

(* dst.releases(): if "next" not in response.links: break; url = ... *)
DstNextLink ==
  /\ phase = "dst"
  /\ dpc = "yield"
  /\ dpending = <<>>
  /\ IF dresponse.links = None
     THEN dpc' = "done" /\ durl' = durl
     ELSE dpc' = "fetch" /\ durl' = dresponse.links
  /\ UNCHANGED <<phase, dresponse, dpending, drequests, dserved, already, notices>>

(* The call is made with whatever the destination has listed so far. *)
CallSrcEarly ==
  /\ phase = "dst"
  /\ dpc \in {"yield", "done"}
  /\ ignore' = already
  /\ phase' = "src"
  /\ UNCHANGED <<tag_filter, pc, url, response, pending, running, consumer,
                 requests, served, yielded, out>>
  /\ UNCHANGED <<dpc, durl, dresponse, dpending, drequests, dserved, already, notices>>

(* src.releases(tag_filter, *already): the unpacking is complete, the  *)
(* call binds ignore and returns the generator expression.             *)
CallSrc ==
  /\ phase = "dst"
  /\ dpc = "done"
  /\ ignore' = already
  /\ phase' = "src"
  /\ UNCHANGED <<tag_filter, pc, url, response, pending, running, consumer,
                 requests, served, yielded, out>>
  /\ UNCHANGED <<dpc, durl, dresponse, dpending, drequests, dserved, already, notices>>

(* for release in ...: the loop asks for the next release *)
CliNext ==
  /\ phase = "src"
  /\ Len(notices) = Len(out)
  /\ Pull
  /\ UNCHANGED cliVars

(* notice(release); for asset in release.assets(asset_filter): warning(asset) *)
CliBody ==
  /\ phase = "src"
  /\ ~running
  /\ Len(notices) < Len(out)
  /\ LET release == out[Len(notices) + 1]
         names == [i \in 1..Len(release.data["assets"]) |-> release.data["assets"][i]["name"]]
         wanted(n) == asset_filter = None \/ PatternMatch(asset_filter, n)
     IN notices' = Append(notices, [notice |-> release.tag, warnings |-> SelectSeq(names, wanted)])
  /\ UNCHANGED <<phase, dpc, durl, dresponse, dpending, drequests, dserved, already>>
  /\ UNCHANGED repoVars

(* The source listing has ended or raised: cli returns or fails. *)
CliEnd ==
  /\ phase = "src"
  /\ Len(notices) = Len(out)
  /\ consumer \in {"finished", "failed"}
  /\ phase' = IF consumer = "finished" THEN "done" ELSE "failed"
  /\ UNCHANGED <<dpc, durl, dresponse, dpending, drequests, dserved, already, notices>>
  /\ UNCHANGED repoVars

vars == <<repoVars, relVars, httpVars, redistVars, cliVars>>

(* ------------------------------------------------------------------ *)
(* Properties of the listing                                          *)
(* ------------------------------------------------------------------ *)
RECURSIVE FlattenReleases(_)
FlattenReleases(rs) ==
  IF rs = <<>> THEN <<>>
  ELSE FlattenReleases(SubSeq(rs, 1, Len(rs) - 1)) \o
       [i \in 1..Len(rs[Len(rs)].content) |-> Release(rs[Len(rs)].content[i])]

Success(status) == status \in 200..299

AnchoredAtStart(p, s) == \E w \in Lang(p) : IsPrefix(w, s)

Wanted(r) ==
  /\ (tag_filter = None \/ AnchoredAtStart(tag_filter, r.tag))
  /\ \A i \in 1..Len(ignore) : ignore[i].tag # r.tag

(* C1: GHSrcRepo.releases(tag_filter, *already_present) yields exactly *)
(* the releases of the underlying sequence for which (tag_filter is    *)
(* absent or matches the tag anchored at the start) and whose tag is   *)
(* the tag of no element of already_present, in the underlying order.  *)
C1_DifferPredicate == out = SelectSeq(yielded, Wanted)

C1_Witness ==
  /\ consumer = "finished"
  /\ tag_filter # None
  /\ out # <<>>
  /\ \E i \in 1..Len(yielded) : \E j \in 1..Len(ignore) :
       /\ ignore[j].tag = yielded[i].tag
       /\ ignore[j].data # yielded[i].data
       /\ AnchoredAtStart(tag_filter, yielded[i].tag)
  /\ \E i \in 1..Len(yielded) :
       /\ ~AnchoredAtStart(tag_filter, yielded[i].tag)
       /\ \A j \in 1..Len(ignore) : ignore[j].tag # yielded[i].tag

(* C2: a page is requested only while the consumer is pulling and      *)
(* after every release of the earlier pages has been yielded; once     *)
(* the consumer has stopped no request is issued.                      *)
C2_Lazy ==
  [][/\ requests' # requests =>
          /\ running
          /\ consumer = "iterating"
          /\ yielded = FlattenReleases(served)
     /\ consumer = "stopped" => requests' = requests /\ consumer' = "stopped"]_vars

C2_Witness ==
  /\ consumer = "stopped"
  /\ Len(requests) = 2
  /\ served[1].content # <<>>
  /\ pending # <<>>

(* C3: the first request goes to the per_page=100 URL, every later     *)
(* request goes to the "next" link of the response before it, no       *)
(* request follows a response without a "next" link, and the sequence  *)
(* ends only at such a response, having yielded every release of every *)
(* page once, in page order and in in-page order.                      *)
C3_Pagination ==
  /\ \A k \in 1..Len(requests) :
       requests[k] = IF k = 1 THEN "/repos/o/r/releases?per_page=100" ELSE served[k - 1].links
  /\ \A k \in 1..Len(served) :
       (Success(served[k].status) /\ served[k].links = None) => k = Len(served)
  /\ pc = "done" =>
       /\ served # <<>>
       /\ served[Len(served)].links = None
       /\ \A k \in 1..Len(served) : Success(served[k].status)
       /\ yielded = FlattenReleases(served)

C3_Witness ==
  /\ pc = "done"
  /\ Len(served) = 2
  /\ Len(served[1].content) = 2
  /\ served[1].content[1] # served[1].content[2]
  /\ served[2].content # <<>>

AllAssets == [i \in 1..Len(rel.data["assets"]) |-> Asset(rel.data["assets"][i], rel)]

Selected(a) == asset_filter = None \/ AnchoredAtStart(asset_filter, a.name)

(* C5: Release.assets(asset_filter) returns, in the order of the raw   *)
(* records, every asset when there is no filter and otherwise exactly  *)
(* the assets whose name the filter matches anchored at the start; a   *)
(* release without assets yields nothing.                              *)
C5_AssetSelector ==
  /\ aout = SelectSeq(SubSeq(AllAssets, 1, apos), Selected)
  /\ astate = "finished" => aout = SelectSeq(AllAssets, Selected)
  /\ rel.data["assets"] = <<>> => aout = <<>>

C5_Witness ==
  /\ astate = "finished"
  /\ asset_filter # None
  /\ aout # <<>>
  /\ \E i \in 1..Len(AllAssets) :
       /\ ~AnchoredAtStart(asset_filter, AllAssets[i].name)
       /\ \E k \in 1..Len(AllAssets[i].name) :
            AnchoredAtStart(asset_filter, SubSeq(AllAssets[i].name, k, Len(AllAssets[i].name)))

(* C6: two assets with the same name are equal iff their releases have *)
(* the same tag, assets with different names are not equal, and equal  *)
(* assets have equal hashes.                                           *)
C6_AssetEquality ==
  cmp.done =>
    /\ cmp.a1.name = cmp.a2.name =>
         /\ cmp.eq <=> ReleaseEq(cmp.a1.release, cmp.a2.release)
         /\ cmp.eq <=> cmp.a1.release.tag = cmp.a2.release.tag
    /\ cmp.a1.name # cmp.a2.name => ~cmp.eq
    /\ cmp.eq => cmp.h1 = cmp.h2

C6_Witness ==
  /\ cmp.done
  /\ cmp.eq
  /\ cmp.a1.data # cmp.a2.data
  /\ cmp.a1.release # cmp.a2.release

(* ------------------------------------------------------------------ *)
(* Properties of the redist.py commands                               *)
(* ------------------------------------------------------------------ *)
(* C8: publish without force in a working tree with uncommitted        *)
(* changes ends with exit status 1 and no upload; with force, or in a  *)
(* clean working tree, it reaches the upload step.                     *)
C8_PublishGuard ==
  cmd.last = "publish" =>
    /\ (~cmd.force /\ worktree # <<>>) =>
         (cmd.name = "none" /\ exit_code = 1 /\ uploads = {})
    /\ (cmd.force \/ worktree = <<>>) =>
         (cmd.name = "publish" \/ exit_code = 0)

C8_Witness ==
  /\ cmd.last = "publish"
  /\ ~cmd.force
  /\ worktree # <<>>
  /\ exit_code = 1
  /\ assembled # {}
  /\ dist_dirs # {}

(* The wheels the version option of publish selects. *)
VersionSelects(version, path) ==
  version = Star \/ IsPrefix(WHL_NAME \o <<"-">> \o version \o <<"-">>, path[Len(path)])

(* C9: a publish that went through has passed to upload every wheel    *)
(* that assemble wrote into DIST_DIR and that the version selects.     *)
C9_PublishAllWheels ==
  (cmd.last = "publish" /\ cmd.name = "none" /\ exit_code = 0) =>
    \A w \in assembled \cap dist :
      VersionSelects(cmd.version, w) => \E u \in uploads : w \in u.dists

(* C10: no zip file name makes build fail, and a warning is logged     *)
(* for every visited name without a recognized platform.               *)
C10_UnknownPlatformSkipped ==
  cmd.last = "build" =>
    /\ exit_code # 1
    /\ \A c \in warnings : \A e \in PlatformTable : ~IsSuffix(e[1] \o <<".zip">>, c[2])

(* ------------------------------------------------------------------ *)
(* Properties of cli                                                  *)
(* ------------------------------------------------------------------ *)
(* C11: every request to the destination precedes every request to the *)
(* source; when the first source request is issued the destination     *)
(* listing has ended and the exclusion tuple holds every release of    *)
(* every destination page; after a fetch error of the destination no   *)
(* source request is made and no release is reported.                  *)
C11_DestinationFirst ==
  [][/\ drequests' # drequests => (requests = <<>> /\ requests' = <<>> /\ yielded' = <<>>)
     /\ requests' # requests =>
          /\ drequests' = drequests
          /\ dpc = "done"
          /\ dserved # <<>>
          /\ dserved[Len(dserved)].links = None
          /\ ignore = FlattenReleases(dserved)
     /\ dpc' = "raised" =>
          /\ phase' = "failed"
          /\ requests' = <<>>
          /\ out' = <<>>
          /\ notices' = <<>>]_vars

C11_Witness ==
  /\ phase = "done"
  /\ Len(drequests) = 2
  /\ Len(requests) = 2
  /\ Len(ignore) = 2
  /\ notices # <<>>
  /\ \E i \in 1..Len(yielded) : \E j \in 1..Len(ignore) :
       ignore[j].tag = yielded[i].tag /\ ignore[j].data # yielded[i].data

(* ------------------------------------------------------------------ *)
(* Specifications: each part of the program runs on its own, the      *)
(* variables of the other parts rest.                                 *)
(* ------------------------------------------------------------------ *)
RepoRest ==
  /\ tag_filter = None
  /\ ignore = <<>>
  /\ pc = "fetch"
  /\ url = FirstUrl
  /\ response = NoResponse
  /\ pending = <<>>
  /\ running = FALSE
  /\ consumer = "iterating"
  /\ requests = <<>>
  /\ served = <<>>
  /\ yielded = <<>>
  /\ out = <<>>

RelRest ==
  /\ rel = Release([tag_name |-> <<"v", "3">>, assets |-> <<>>])
  /\ asset_filter = None
  /\ apos = 0
  /\ aout = <<>>
  /\ astate = "iterating"
  /\ cmp = NoCmp

HttpRest ==
  /\ environ = <<>>
  /\ headers = <<>>
  /\ loaded = FALSE
  /\ sent = <<>>

RedistRest ==
  /\ cache = {}
  /\ build_dirs = {}
  /\ build = {}
  /\ dist = {}
  /\ dist_dirs = {}
  /\ worktree = <<>>
  /\ cmd = NoCmd
  /\ btags = {}
  /\ bassets = {}
  /\ warnings = {}
  /\ assembled = {}
  /\ uploads = {}
  /\ exit_code = -1
  /\ runs = 0

CliRest ==
  /\ phase = "src"
  /\ dpc = "done"
  /\ durl = DstFirstUrl
  /\ dresponse = NoResponse
  /\ dpending = <<>>
  /\ drequests = <<>>
  /\ dserved = <<>>
  /\ already = <<>>
  /\ notices = <<>>

(* Listing of releases: GHRepo.releases and GHSrcRepo.releases *)
Init == RepoInit /\ RelRest /\ HttpRest /\ RedistRest /\ CliRest

Next ==
  \/ Pull /\ UNCHANGED <<relVars, httpVars, redistVars, cliVars>>
  \/ Stop /\ UNCHANGED <<relVars, httpVars, redistVars, cliVars>>
  \/ Get /\ UNCHANGED <<relVars, httpVars, redistVars, cliVars>>
  \/ YieldFrom /\ UNCHANGED <<relVars, httpVars, redistVars, cliVars>>
  \/ NextLink /\ UNCHANGED <<relVars, httpVars, redistVars, cliVars>>

Spec == Init /\ [][Next]_vars

(* Release.assets and Asset *)
InitRelease == RelInit /\ RepoRest /\ HttpRest /\ RedistRest /\ CliRest

NextRelease ==
  \/ AssetsNext /\ UNCHANGED <<repoVars, httpVars, redistVars, cliVars>>
  \/ AssetsEnd /\ UNCHANGED <<repoVars, httpVars, redistVars, cliVars>>
  \/ Compare /\ UNCHANGED <<repoVars, httpVars, redistVars, cliVars>>

SpecRelease == InitRelease /\ [][NextRelease]_vars

(* Credential of the HTTP session *)
InitHttp == HttpInit /\ RepoRest /\ RelRest /\ RedistRest /\ CliRest

NextHttp ==
  \/ LoadHttp /\ UNCHANGED <<repoVars, relVars, redistVars, cliVars>>
  \/ SessionGet /\ UNCHANGED <<repoVars, relVars, redistVars, cliVars>>

SpecHttp == InitHttp /\ [][NextHttp]_vars

(* redist.py commands *)
InitRedist == RedistInit /\ RepoRest /\ RelRest /\ HttpRest /\ CliRest

NextRedist ==
  \/ BuildStart /\ UNCHANGED <<repoVars, relVars, httpVars, cliVars>>
  \/ BuildTag /\ UNCHANGED <<repoVars, relVars, httpVars, cliVars>>
  \/ BuildAsset /\ UNCHANGED <<repoVars, relVars, httpVars, cliVars>>
  \/ BuildEnd /\ UNCHANGED <<repoVars, relVars, httpVars, cliVars>>
  \/ Assemble /\ UNCHANGED <<repoVars, relVars, httpVars, cliVars>>
  \/ PublishCheck /\ UNCHANGED <<repoVars, relVars, httpVars, cliVars>>
  \/ PublishUpload /\ UNCHANGED <<repoVars, relVars, httpVars, cliVars>>

SpecRedist == InitRedist /\ [][NextRedist]_vars

(* cli: one synchronization run *)
InitCli ==
  /\ CliInit
  /\ asset_filter \in {None} \cup AssetPatterns
  /\ rel = Release([tag_name |-> <<"v", "3">>, assets |-> <<>>])
  /\ apos = 0
  /\ aout = <<>>
  /\ astate = "iterating"
  /\ cmp = NoCmp
  /\ HttpRest
  /\ RedistRest

NextCli ==
  \/ DstGet /\ UNCHANGED <<repoVars, relVars, httpVars, redistVars>>
  \/ DstYieldFrom /\ UNCHANGED <<repoVars, relVars, httpVars, redistVars>>
  \/ DstNextLink /\ UNCHANGED <<repoVars, relVars, httpVars, redistVars>>
  \/ CallSrc /\ UNCHANGED <<relVars, httpVars, redistVars>>
  \/ CliNext /\ UNCHANGED <<relVars, httpVars, redistVars>>
  \/ phase = "src" /\ Get /\ UNCHANGED <<relVars, httpVars, redistVars, cliVars>>
  \/ phase = "src" /\ YieldFrom /\ UNCHANGED <<relVars, httpVars, redistVars, cliVars>>
  \/ phase = "src" /\ NextLink /\ UNCHANGED <<relVars, httpVars, redistVars, cliVars>>
  \/ CliBody /\ UNCHANGED <<relVars, httpVars, redistVars>>
  \/ CliEnd /\ UNCHANGED <<relVars, httpVars, redistVars>>

SpecCli == InitCli /\ [][NextCli]_vars

====
